---- MODULE Spec2Model ----
(***************************************************************************)
(* A model of mio's non-blocking pump (src/io.rs: read, write), of the OS  *)
(* layer under it (src/os/posix.rs: read, write, pipe) and of the echo     *)
(* server test that drives both through the Reactor                        *)
(* (test/test_echo_server.rs).                                             *)
(*                                                                         *)
(* One pump call is a small state machine: pc = "loop" stands at the       *)
(* `while !buf.is_empty()` test, pc = "os" stands inside os::read or       *)
(* os::write, pc = "done" is the return.  What the kernel answers to a     *)
(* system call is the environment's choice.                                *)
(*                                                                         *)
(* The specifications: Spec (one pump call after another on an arbitrary   *)
(* descriptor), SpecPipe (a writer and a reader over one pipe), SpecEcho   *)
(* (the echo test), SpecReactor (run() under an arbitrary handler),        *)
(* SpecOs (the descriptors pipe, socket and accept make, and their         *)
(* release) and SpecConn (one EchoConn against any OS answer).             *)
(***************************************************************************)
EXTENDS Integers, Sequences, FiniteSets, TLC

\* ---------------------------------------------------------------- bounds

\* Largest remaining length of a buffer handed to a pump call.
MaxLen == 3
\* Longest recorded history of OS results in one pump call (the history
\* saturates there; the call itself goes on).
MaxCalls == 5
\* Longest byte sequence sent through the pipe, and largest reader buffer.
MaxMsg == 3
\* Bytes the kernel's pipe buffer holds.
PipeCap == 2
\* Bytes a socket's send buffer, and its receive buffer, hold.
SockCap == 2
\* OS resources (pipe ends, sockets) the kernel creates in one run.
MaxRes == 3
\* Calls of Reactor::shutdown an arbitrary handler makes in one run.
MaxShutdowns == 2
\* Bytes that arrive for an EchoConn in one run.
MaxIn == 3

VARIABLES
    pc,          \* position of the pump call: "idle", "loop", "os", "done"
    op,          \* the pump that was called: "read" or "write"
    first_iter,  \* io::read's local first_iter
    ret,         \* the call's return value, "none" while it runs
    buf,         \* the Iobuf passed as &mut: [mem, lo, hi], the window is mem[lo+1..hi]
    buf0,        \* history: buf as it was on entry
    oslog,       \* history: the raw results of the OS calls of this pump call
    who,         \* the caller of the pump call: "none", "writer", "reader", ...
    msg,         \* the byte sequence the pipe's writer sends
    wbuf,        \* the writer's buffer over msg
    rbuf,        \* the reader's RWIobuf
    pipe,        \* the bytes in the kernel's pipe buffer, oldest first
    wr_open,     \* the PipeWriter has not been dropped
    wret,        \* what the writer's last pump call returned
    rret,        \* what the reader's last pump call returned
    tpc,         \* test_echo_server's position: "listen", "connect", "run", "running", "returned"
    rstate,      \* the Reactor: "Idle", "Running", "Stopped"
    rpc,         \* inside run(): "poll" or "dispatch"
    reg,         \* the Reactor's table: registrations [token, interest]
    pending,     \* the events of this poll cycle not dispatched yet
    shutdown_req,\* shutdown() was called
    cstate,      \* the client's connect: "none", "inprogress", "established"
    backlog,     \* connections waiting in the listener's queue
    c2s,         \* bytes from the client to the server: [snd, rcv]
    s2c,         \* bytes from the server to the client: [snd, rcv]
    hpc,         \* the handler callback's position, "none" between callbacks
    htok,        \* the token the running callback was called with
    cont,        \* EchoClient: what flush_msg returns into, and readable's res
    client,      \* the EchoClient: [msgs, tx, rx, buf, writable]
    conns,       \* the EchoServer's slab of EchoConn: [readable, writable, ring]
    panic,       \* "none", or the failure that ended the thread
    sent,        \* history: the bytes the client's OS writes put on its socket
    rcvd,        \* history: the bytes the client read and compared
    ncalls,      \* history: how often Reactor::shutdown was called
    eofs,        \* history: the pipe reader's calls that returned EndOfStream (0, 1, many)
    cin,         \* history: the bytes an EchoConn took from its socket
    cout,        \* history: the bytes an EchoConn put on its socket
    fdtab,       \* the kernel's descriptor table: fd number -> resource, 0 when free
    closes,      \* per resource the kernel created: how often it was closed
    descs,       \* the IoDesc values alive, each the fd number it holds
    misuse,      \* a system call or a close was given an fd number that is not open
    oscall       \* the last call of the OS layer: [call, errno, ret]

pumpVars == <<pc, op, first_iter, ret, buf, buf0, oslog>>

pipeVars == <<who, msg, wbuf, rbuf, pipe, wr_open, wret, rret>>

reactorVars == <<rstate, rpc, reg, pending, shutdown_req>>

netVars == <<cstate, backlog, c2s, s2c>>

appVars == <<tpc, hpc, htok, cont, client, conns, panic>>

histVars == <<sent, rcvd>>

echoVars == <<reactorVars, netVars, appVars, histVars>>

osVars == <<fdtab, closes, descs, misuse, oscall>>

moreVars == <<ncalls, eofs, cin, cout, osVars>>

vars == <<pumpVars, pipeVars, echoVars, moreVars>>

\* ------------------------------------------------------------- the Iobuf

\* A byte of memory nothing was written to yet.
Junk == "?"

\* Iobuf::len: the bytes left in the window.
len(b) == b.hi - b.lo

\* Iobuf::is_empty
is_empty(b) == len(b) = 0

\* Iobuf::as_slice / as_mut_slice: the window's bytes.
as_slice(b) == [i \in 1..len(b) |-> IF b.lo + i <= Len(b.mem) THEN b.mem[b.lo + i] ELSE Junk]

\* Iobuf::unsafe_advance: the cursor moves n bytes to the right.
unsafe_advance(b, n) == [b EXCEPT !.lo = @ + n]

\* The bytes land at the start of the buffer, not at the cursor.
StoreAt_ignores_cursor(b, bytes) ==
    LET top == IF b.lo + Len(bytes) > Len(b.mem) THEN b.lo + Len(bytes) ELSE Len(b.mem)
    IN  [b EXCEPT !.mem = [i \in 1..top |->
            IF i <= Len(bytes) THEN bytes[i]
            ELSE IF i <= Len(b.mem) THEN b.mem[i] ELSE Junk]]

\* What the kernel does to the slice handed to read(2): bytes land at the cursor.
StoreAt(b, bytes) ==
    LET top == IF b.lo + Len(bytes) > Len(b.mem) THEN b.lo + Len(bytes) ELSE Len(b.mem)
    IN  [b EXCEPT !.mem = [i \in 1..top |->
            IF i > b.lo /\ i <= b.lo + Len(bytes) THEN bytes[i - b.lo]
            ELSE IF i <= Len(b.mem) THEN b.mem[i] ELSE Junk]]

\* A fresh RWIobuf of capacity n: nothing written, the window is all of it.
NewBuf(n) == [mem |-> <<>>, lo |-> 0, hi |-> n]

\* An Iobuf over the bytes s (ROIobuf::from_str).
FromBytes(s) == [mem |-> s, lo |-> 0, hi |-> Len(s)]

\* ----------------------------------------------------------- the OS layer

\* A raw system call result: errno "OK" with n bytes moved (bytes: what a read
\* stored), or an errno and nothing moved.
SysOk(bytes) == [errno |-> "OK", n |-> Len(bytes), bytes |-> bytes]
SysErr(e) == [errno |-> e, n |-> 0, bytes |-> <<>>]

\* MioError::from_sys_error: EAGAIN is WouldBlock, every other errno is Other.
from_sys_error(e) == IF e = "EAGAIN" THEN "WouldBlock" ELSE "Other"

\* os::read advancing by the length it asked for, not by the count read.
os_read_full_advance(dst, r) ==
    IF r.errno # "OK"
    THEN [buf |-> dst, res |-> from_sys_error(r.errno)]
    ELSE [buf |-> unsafe_advance(StoreAt(dst, r.bytes), len(dst)),
          res |-> IF r.n = 0 THEN "EndOfStream" ELSE "Ok"]

\* os::read: one read(2) into the window; the cursor advances by what was
\* read; zero bytes read is the EndOfStream error.
os_read(dst, r) ==
    IF r.errno # "OK"
    THEN [buf |-> dst, res |-> from_sys_error(r.errno)]
    ELSE [buf |-> unsafe_advance(StoreAt(dst, r.bytes), r.n),
          res |-> IF r.n = 0 THEN "EndOfStream" ELSE "Ok"]

\* os::write taking every write for a full one: the count is ignored.
os_write_ignores_count(src, r) ==
    IF r.errno # "OK"
    THEN [buf |-> src, res |-> from_sys_error(r.errno)]
    ELSE [buf |-> unsafe_advance(src, len(src)), res |-> "Ok"]

\* A short write (fewer bytes than offered) reported as if the descriptor blocked.
os_write_short_blocks(src, r) ==
    IF r.errno # "OK"
    THEN [buf |-> src, res |-> from_sys_error(r.errno)]
    ELSE [buf |-> unsafe_advance(src, r.n),
          res |-> IF r.n < len(src) THEN "WouldBlock" ELSE "Ok"]

\* os::write: one write(2) from the window; the cursor advances by what was
\* written; every count, zero included, is Ok(()).
os_write(src, r) ==
    IF r.errno # "OK"
    THEN [buf |-> src, res |-> from_sys_error(r.errno)]
    ELSE [buf |-> unsafe_advance(src, r.n), res |-> "Ok"]

\* ---------------------------------------------------------------- the pump

\* io::read without the first_iter test: end of stream is always the error.
read_match_eof_always_err(res, first) ==
    CASE res = "Ok"          -> [ret |-> "none", first_iter |-> FALSE]
      [] res = "WouldBlock"  -> [ret |-> "Ok(WouldBlock)", first_iter |-> first]
      [] res = "EndOfStream" -> [ret |-> "Err(EndOfStream)", first_iter |-> first]
      [] OTHER               -> [ret |-> "Err(Other)", first_iter |-> first]

\* io::read with the first_iter test the wrong way round.
read_match_eof_swapped(res, first) ==
    CASE res = "Ok"          -> [ret |-> "none", first_iter |-> FALSE]
      [] res = "WouldBlock"  -> [ret |-> "Ok(WouldBlock)", first_iter |-> first]
      [] res = "EndOfStream" -> [ret |-> IF first THEN "Ok(Ready)" ELSE "Err(EndOfStream)",
                                 first_iter |-> first]
      [] OTHER               -> [ret |-> "Err(Other)", first_iter |-> first]

\* io::read taking "not now" for completion.
read_match_block_is_ready(res, first) ==
    CASE res = "Ok"          -> [ret |-> "none", first_iter |-> FALSE]
      [] res = "WouldBlock"  -> [ret |-> "Ok(Ready)", first_iter |-> first]
      [] res = "EndOfStream" -> [ret |-> IF first THEN "Err(EndOfStream)" ELSE "Ok(Ready)",
                                 first_iter |-> first]
      [] OTHER               -> [ret |-> "Err(Other)", first_iter |-> first]

\* The match of io::read on os::read's result: what the call returns ("none":
\* it loops on) and the new first_iter.
read_match(res, first) ==
    CASE res = "Ok"          -> [ret |-> "none", first_iter |-> FALSE]
      [] res = "WouldBlock"  -> [ret |-> "Ok(WouldBlock)", first_iter |-> first]
      [] res = "EndOfStream" -> [ret |-> IF first THEN "Err(EndOfStream)" ELSE "Ok(Ready)",
                                 first_iter |-> first]
      [] OTHER               -> [ret |-> "Err(Other)", first_iter |-> first]

\* io::write trying again when the descriptor would block.
write_match_retries_on_block(res) ==
    CASE res = "Ok"         -> "none"
      [] res = "WouldBlock" -> "none"
      [] OTHER              -> "Err(Other)"

\* The match of io::write on os::write's result.
write_match(res) ==
    CASE res = "Ok"         -> "none"
      [] res = "WouldBlock" -> "Ok(WouldBlock)"
      [] OTHER              -> "Err(Other)"

\* A loop that gives up one byte early.
loop_test_off_by_one(b) == len(b) > 1

\* The loop test of both pumps: `while !buf.is_empty()`.
loop_test(b) == ~is_empty(b)

\* The history of OS results.  A full history keeps its first MaxCalls - 1
\* entries and the newest one, so that its last entry is always the last
\* result (only a call that goes on after MaxCalls results loses any).
Logged(log, r) ==
    LET e == [errno |-> r.errno, n |-> r.n]
    IN  IF Len(log) < MaxCalls THEN Append(log, e) ELSE [log EXCEPT ![MaxCalls] = e]

\* Entry of io::read / io::write on buffer b.
Enter(o, b) ==
    /\ pc' = "loop"
    /\ op' = o
    /\ first_iter' = TRUE
    /\ ret' = "none"
    /\ buf' = b
    /\ buf0' = b
    /\ oslog' = <<>>

\* The `while` test: an exhausted buffer ends the call with Ok(Ready(())).
LoopTest ==
    /\ pc = "loop"
    /\ IF loop_test(buf)
       THEN pc' = "os" /\ ret' = ret
       ELSE pc' = "done" /\ ret' = "Ok(Ready)"
    /\ UNCHANGED <<op, first_iter, buf, buf0, oslog>>

\* One iteration of io::read's loop body, the kernel answering r.
ReadStep(r) ==
    /\ pc = "os" /\ op = "read"
    /\ LET o == os_read(buf, r)
           m == read_match(o.res, first_iter)
       IN  /\ buf' = o.buf
           /\ first_iter' = m.first_iter
           /\ ret' = m.ret
           /\ pc' = IF m.ret = "none" THEN "loop" ELSE "done"
    /\ oslog' = Logged(oslog, r)
    /\ UNCHANGED <<op, buf0>>

\* One iteration of io::write's loop body, the kernel answering r.
WriteStep(r) ==
    /\ pc = "os" /\ op = "write"
    /\ LET o == os_write(buf, r)
           m == write_match(o.res)
       IN  /\ buf' = o.buf
           /\ ret' = m
           /\ pc' = IF m = "none" THEN "loop" ELSE "done"
    /\ oslog' = Logged(oslog, r)
    /\ UNCHANGED <<op, first_iter, buf0>>

\* --------------------------------------- the pump on an arbitrary descriptor

\* Filler bytes an unspecified descriptor delivers.
Fill(n) == [i \in 1..n |-> "x"]

\* Every answer read(2)/write(2) can give for a slice of n bytes: an error
\* (EAGAIN or another), or 0..n bytes moved.
AnySys(n) == {SysErr("EAGAIN"), SysErr("EIO")} \cup {SysOk(Fill(k)) : k \in 0..n}

\* No pump call is running.
NoCall ==
    /\ pc = "idle"
    /\ op = "read"
    /\ first_iter = TRUE
    /\ ret = "none"
    /\ buf = NewBuf(0)
    /\ buf0 = NewBuf(0)
    /\ oslog = <<>>

\* No pipe was made.
NoPipe ==
    /\ who = "none"
    /\ msg = <<>>
    /\ wbuf = FromBytes(<<>>)
    /\ rbuf = NewBuf(0)
    /\ pipe = <<>>
    /\ wr_open = FALSE
    /\ wret = "none"
    /\ rret = "none"

\* An EchoClient / a socket queue with nothing in it.
NoClient == [msgs |-> <<>>, tx |-> FromBytes(<<>>), rx |-> FromBytes(<<>>),
             buf |-> NewBuf(0), writable |-> FALSE]
NoBytes == [snd |-> <<>>, rcv |-> <<>>]

\* No Reactor, no socket, no handler.
NoEcho ==
    /\ tpc = "none"
    /\ rstate = "Idle"
    /\ rpc = "poll"
    /\ reg = {}
    /\ pending = {}
    /\ shutdown_req = FALSE
    /\ cstate = "none"
    /\ backlog = 0
    /\ c2s = NoBytes
    /\ s2c = NoBytes
    /\ hpc = "none"
    /\ htok = 0
    /\ cont = "none"
    /\ client = NoClient
    /\ conns = <<>>
    /\ panic = "none"
    /\ sent = <<>>
    /\ rcvd = <<>>

\* No descriptor was made, no connect was tried.
NoOs ==
    /\ fdtab = [n \in 1..MaxRes |-> 0]
    /\ closes = <<>>
    /\ descs = <<>>
    /\ misuse = FALSE
    /\ oscall = [call |-> "none", errno |-> "OK", ret |-> "none"]

\* Nothing has happened yet.
NoMore ==
    /\ ncalls = 0
    /\ eofs = 0
    /\ cin = <<>>
    /\ cout = <<>>
    /\ NoOs

InitPump == NoCall /\ NoPipe /\ NoEcho /\ NoMore

\* A caller hands a buffer with 0..MaxLen bytes left to one of the pumps.
PumpCall ==
    /\ pc = "idle"
    /\ \E o \in {"read", "write"}, n \in 0..MaxLen :
          Enter(o, IF o = "read" THEN NewBuf(n) ELSE FromBytes(Fill(n)))
    /\ UNCHANGED <<pipeVars, echoVars>>
    /\ UNCHANGED moreVars

PumpTest == LoopTest /\ UNCHANGED <<pipeVars, echoVars>>
    /\ UNCHANGED moreVars

PumpRead == (\E r \in AnySys(len(buf)) : ReadStep(r)) /\ UNCHANGED <<pipeVars, echoVars>>
    /\ UNCHANGED moreVars

PumpWrite == (\E r \in AnySys(len(buf)) : WriteStep(r)) /\ UNCHANGED <<pipeVars, echoVars>>
    /\ UNCHANGED moreVars

\* The caller takes the result; the next call may follow.
PumpReturn ==
    /\ pc = "done"
    /\ pc' = "idle"
    /\ UNCHANGED <<op, first_iter, ret, buf, buf0, oslog>>
    /\ UNCHANGED <<pipeVars, echoVars>>
    /\ UNCHANGED moreVars

NextPump == PumpCall \/ PumpTest \/ PumpRead \/ PumpWrite \/ PumpReturn

Spec == InitPump /\ [][NextPump]_vars

\* The thread that runs a pump call keeps running: a call in progress takes
\* its next step.
FairSpec == Spec /\ WF_vars(PumpTest \/ PumpRead \/ PumpWrite)

\* ------------------------------------------------- properties of one call

RECURSIVE Moved(_)
\* The bytes the recorded OS calls moved.
Moved(log) == IF log = <<>> THEN 0 ELSE log[Len(log)].n + Moved(SubSeq(log, 1, Len(log) - 1))

Last(log) == log[Len(log)]

\* Entries 1..k of the history are successful transfers of at least one byte.
Progress(log, k) == \A i \in 1..k : log[i].errno = "OK" /\ log[i].n > 0

\* The call's last OS call moved zero bytes.
EndedAtZero == oslog # <<>> /\ Last(oslog).errno = "OK" /\ Last(oslog).n = 0

\* A read call that made progress and then read zero bytes.
EofAfterProgress ==
    /\ pc = "done" /\ op = "read"
    /\ Len(oslog) >= 2 /\ EndedAtZero /\ Progress(oslog, Len(oslog) - 1)

\* C1: a read pump call that reads N > 0 bytes in one or more successful OS
\* reads and then, with capacity left, reads zero bytes (end of stream)
\* returns Ok(Ready(())), not an error, and its cursor has advanced by
\* exactly N.
C1_EofAfterProgressIsReady ==
    EofAfterProgress =>
        /\ ret = "Ok(Ready)"
        /\ buf.lo = buf0.lo + Moved(oslog)
        /\ len(buf) = len(buf0) - Moved(oslog)
        /\ len(buf) > 0

\* Two successful reads, then end of stream, with room left.
C1_Witness == EofAfterProgress /\ Len(oslog) = 3 /\ Moved(oslog) = 2 /\ len(buf) = 1

\* C2: a read pump call whose very first OS read returns zero bytes returns
\* the EndOfStream error, neither Ready nor WouldBlock, and leaves the
\* cursor where it was.
C2_EofFirstIsError ==
    (op = "read" /\ oslog # <<>> /\ oslog[1].errno = "OK" /\ oslog[1].n = 0) =>
        /\ pc \in {"done", "idle"}
        /\ ret = "Err(EndOfStream)"
        /\ Len(oslog) = 1
        /\ buf = buf0

C2_Witness ==
    /\ pc = "done" /\ op = "read" /\ len(buf0) = 2
    /\ oslog = <<[errno |-> "OK", n |-> 0]>> /\ ret = "Err(EndOfStream)"

\* C3: a read pump call whose first OS read reports WouldBlock returns
\* Ok(WouldBlock), issues no further OS call, and leaves the buffer (cursor
\* and remaining capacity) exactly as on entry.
C3_BlockFirstIsWouldBlock ==
    (op = "read" /\ oslog # <<>> /\ oslog[1].errno = "EAGAIN") =>
        /\ pc \in {"done", "idle"}
        /\ ret = "Ok(WouldBlock)"
        /\ Len(oslog) = 1
        /\ buf = buf0

C3_Witness ==
    /\ pc = "done" /\ op = "read" /\ len(buf0) = 3
    /\ oslog = <<[errno |-> "EAGAIN", n |-> 0]>> /\ ret = "Ok(WouldBlock)"

\* C4 as claimed: whenever a pump call (read or write) returns Ok(Ready(())),
\* the buffer's remaining length is 0.
C4_ReadyMeansDrained == (pc = "done" /\ ret = "Ok(Ready)") => len(buf) = 0

\* C4 as the code has it: a pump call that returns Ok(Ready(())) leaves
\* remaining length 0, except a read call that made progress and then read
\* zero bytes, which returns Ready with the capacity that was left.
C4_ReadyMeansDrainedOrEof ==
    (pc = "done" /\ ret = "Ok(Ready)") => (len(buf) = 0 \/ EofAfterProgress)

\* Both pumps have returned Ready after more than one OS call: here a write.
C4_Witness ==
    /\ pc = "done" /\ ret = "Ok(Ready)" /\ op = "write"
    /\ Len(oslog) >= 2 /\ len(buf0) = 3 /\ len(buf) = 0

\* Every recorded OS call succeeded (a failure ends the call, so none is lost).
AllOk(log) == \A i \in 1..Len(log) : log[i].errno = "OK"

\* The descriptor did not take the last write: it failed, or moved nothing.
NotAccepted == oslog # <<>> /\ (Last(oslog).errno # "OK" \/ Last(oslog).n = 0)

\* C5: a write pump call on a non-empty buffer whose OS writes all succeed
\* (never WouldBlock, never an error) returns Ok(Ready(())) with remaining
\* length 0; and the call does return unless the descriptor keeps refusing
\* bytes (a call in progress leads to its return or to a write that failed
\* or moved nothing).
C5_WriteAlwaysReady ==
    /\ [](  (pc = "done" /\ op = "write" /\ AllOk(oslog))
            => (ret = "Ok(Ready)" /\ len(buf) = 0))
    /\ (op = "write" /\ pc \in {"loop", "os"})
         ~> ((pc = "done" /\ ret = "Ok(Ready)" /\ len(buf) = 0) \/ NotAccepted)

\* A buffer of three bytes written in two accepted OS writes.
C5_Witness ==
    /\ pc = "done" /\ op = "write" /\ len(buf0) = 3 /\ len(buf) = 0
    /\ Len(oslog) = 2 /\ Progress(oslog, 2) /\ ret = "Ok(Ready)"

\* C6: every pump call returns after finitely many OS calls, whatever the OS
\* answers (an error, or 0..remaining bytes moved).
C6_PumpReturns == (pc \in {"loop", "os"}) ~> (pc = "done")

\* C18: a pump call returns Ok(WouldBlock) only when its last OS call
\* answered EAGAIN; an OS call that reported WouldBlock or an error (for a
\* read: end of stream too) is the call's last one; and a call entered with
\* nothing left in the buffer returns Ok(Ready(())) without any OS call.
C18_WouldBlockDiscipline ==
    /\ (pc = "done" /\ ret = "Ok(WouldBlock)") =>
          (oslog # <<>> /\ Last(oslog).errno = "EAGAIN")
    /\ \A i \in 1..(Len(oslog) - 1) :
          oslog[i].errno = "OK" /\ (op = "read" => oslog[i].n > 0)
    /\ (oslog # <<>> /\ (Last(oslog).errno # "OK" \/ (op = "read" /\ Last(oslog).n = 0))) =>
          pc \in {"done", "idle"}
    /\ (pc \in {"loop", "os", "done"} /\ len(buf0) = 0) =>
          (oslog = <<>> /\ pc # "os" /\ (pc = "done" => ret = "Ok(Ready)"))

\* A write blocked after two accepted writes.
C18_Witness ==
    /\ pc = "done" /\ op = "write" /\ ret = "Ok(WouldBlock)" /\ len(buf0) = 3
    /\ Len(oslog) = 3 /\ Progress(oslog, 2) /\ Last(oslog).errno = "EAGAIN"

Bytes == {"a", "b"}

Msgs == UNION {[1..n -> Bytes] : n \in 1..MaxMsg}

Min(a, b) == IF a < b THEN a ELSE b

InitPipe ==
    /\ NoCall
    /\ who = "none"
    /\ msg \in Msgs
    /\ wbuf = FromBytes(msg)
    /\ \E n \in 1..MaxMsg : rbuf = NewBuf(n)
    /\ pipe = <<>>
    /\ wr_open = TRUE
    /\ wret = "none"
    /\ rret = "none"
    /\ NoEcho
    /\ NoMore

\* read(2) on the read end, for a slice of n bytes: some of the bytes at the
\* head of the pipe; from an empty pipe EAGAIN, or 0 once the write end is closed.
PipeReadSys(n) ==
    IF pipe = <<>>
    THEN {IF wr_open THEN SysErr("EAGAIN") ELSE SysOk(<<>>)}
    ELSE {SysOk(SubSeq(pipe, 1, k)) : k \in 1..Min(n, Len(pipe))}

\* write(2) on the write end, for the slice s: some of its first bytes, as
\* many as fit; EAGAIN into a full pipe.
PipeWriteSys(s) ==
    IF Len(pipe) >= PipeCap
    THEN {SysErr("EAGAIN")}
    ELSE {SysOk(SubSeq(s, 1, k)) : k \in 1..Min(Len(s), PipeCap - Len(pipe))}

\* PipeWriter::write, called again as long as it has not returned Ready.
PipeWriteCall ==
    /\ pc = "idle" /\ wr_open /\ wret # "Ok(Ready)"
    /\ Enter("write", wbuf)
    /\ who' = "writer"
    /\ UNCHANGED <<msg, wbuf, rbuf, pipe, wr_open, wret, rret, echoVars>>
    /\ UNCHANGED moreVars

\* PipeReader::read, called again as long as it has returned neither Ready
\* nor an error.
PipeReadCall ==
    /\ pc = "idle" /\ rret \in {"none", "Ok(WouldBlock)"}
    /\ Enter("read", rbuf)
    /\ who' = "reader"
    /\ UNCHANGED <<msg, wbuf, rbuf, pipe, wr_open, wret, rret, echoVars>>
    /\ UNCHANGED moreVars

\* PipeReader::read called once more after a call that returned Ready or the
\* EndOfStream error: nothing in PipeReader or IoDesc remembers either.
PipeReadAgain ==
    /\ pc = "idle" /\ rret \in {"Ok(Ready)", "Err(EndOfStream)"}
    /\ Enter("read", rbuf)
    /\ who' = "reader"
    /\ UNCHANGED <<msg, wbuf, rbuf, pipe, wr_open, wret, rret, echoVars>>
    /\ UNCHANGED moreVars

PipeTest == LoopTest /\ UNCHANGED <<pipeVars, echoVars>>
    /\ UNCHANGED moreVars

PipeRead ==
    \E r \in PipeReadSys(len(buf)) :
        /\ ReadStep(r)
        /\ pipe' = SubSeq(pipe, r.n + 1, Len(pipe))
        /\ UNCHANGED <<who, msg, wbuf, rbuf, wr_open, wret, rret, echoVars>>
    /\ UNCHANGED moreVars

PipeWrite ==
    \E r \in PipeWriteSys(as_slice(buf)) :
        /\ WriteStep(r)
        /\ pipe' = pipe \o r.bytes
        /\ UNCHANGED <<who, msg, wbuf, rbuf, wr_open, wret, rret, echoVars>>
    /\ UNCHANGED moreVars

\* The pump call returns: the caller's buffer is the one the call worked on.
PipeReturn ==
    /\ pc = "done"
    /\ pc' = "idle"
    /\ IF who = "writer"
       THEN wbuf' = buf /\ wret' = ret /\ UNCHANGED <<rbuf, rret>>
       ELSE rbuf' = buf /\ rret' = ret /\ UNCHANGED <<wbuf, wret>>
    /\ eofs' = IF who = "reader" /\ ret = "Err(EndOfStream)" THEN Min(eofs + 1, 2) ELSE eofs
    /\ UNCHANGED <<op, first_iter, ret, buf, buf0, oslog, who, msg, pipe, wr_open, echoVars>>
    /\ UNCHANGED <<ncalls, cin, cout, osVars>>

\* The writer is done and drops its PipeWriter: Drop for IoDesc closes the fd.
DropWriter ==
    /\ pc = "idle" /\ wr_open /\ wret = "Ok(Ready)"
    /\ wr_open' = FALSE
    /\ UNCHANGED <<pumpVars, who, msg, wbuf, rbuf, pipe, wret, rret, echoVars>>
    /\ UNCHANGED moreVars

NextPipe ==
    PipeWriteCall \/ PipeReadCall \/ PipeReadAgain \/ PipeTest \/ PipeRead \/ PipeWrite
        \/ PipeReturn \/ DropWriter

SpecPipe == InitPipe /\ [][NextPipe]_vars

\* The reader's and the writer's buffer, the running call's included.
ReaderBuf == IF who = "reader" THEN buf ELSE rbuf
WriterBuf == IF who = "writer" THEN buf ELSE wbuf

\* The bytes the reader has obtained: its buffer up to the cursor.
Received == SubSeq(ReaderBuf.mem, 1, ReaderBuf.lo)

\* The bytes the writer has not handed to the kernel yet.
Unwritten == as_slice(WriterBuf)

\* C7: the bytes sent through a pipe arrive unchanged and in order: at every
\* moment the bytes the reader holds, then those in the pipe, then those the
\* writer still holds are the sequence written (none lost, duplicated or
\* reordered), and a reader whose pump call returned Ready holds exactly the
\* first bytes written, as many as its buffer takes: all of them when the
\* buffer is large enough.
C7_PipeRoundTrip ==
    /\ Received \o pipe \o Unwritten = msg
    /\ rret = "Ok(Ready)" =>
          Received = SubSeq(msg, 1, Min(rbuf.hi, Len(msg)))

\* Three bytes went through the two-byte pipe into a buffer of three.
C7_Witness ==
    /\ rret = "Ok(Ready)" /\ wret = "Ok(Ready)" /\ wr_open
    /\ msg = <<"a", "b", "b">> /\ Received = msg /\ pipe = <<>>

\* C15: over the read pump calls made on the read end of a pipe whose write
\* end was closed, at most one returns the EndOfStream error.
C15_EofSurfacedOnce == eofs <= 1

\* ---------------------------------------------------- the echo server test

\* RWIobuf::new(1024), the EchoClient's read buffer.
BufCap == 1024
\* IORingbuf::new(1024), an EchoConn's ring buffer.
RingCap == 1024

\* vec!["foo", "bar"]
MsgList == << <<"f", "o", "o">>, <<"b", "a", "r">> >>

Kinds == {"readable", "writable"}

IsErr(r) == r \in {"Err(EndOfStream)", "Err(Other)"}

\* The pump call's locals are gone.
Leave ==
    /\ pc' = "idle"
    /\ op' = "read"
    /\ first_iter' = TRUE
    /\ ret' = "none"
    /\ buf' = NewBuf(0)
    /\ buf0' = NewBuf(0)
    /\ oslog' = <<>>

\* ---- the Reactor

\* Reactor::register(descriptor, token, interest): the registration joins the
\* table.
register(table, t, interest) == table \cup {[token |-> t, interest |-> interest]}

Registered(t) == \E r \in reg : r.token = t

\* What the OS reports for the descriptor under token t: the listener (0) is
\* readable when a connection waits; the client's socket (1) and an accepted
\* connection's (2 + index) are readable when bytes have arrived and
\* writable when the send buffer has room.
SockReady(t, k) ==
    CASE t = 0 -> k = "readable" /\ backlog > 0
      [] t = 1 -> IF k = "readable" THEN s2c.rcv # <<>>
                  ELSE cstate = "established" /\ Len(c2s.snd) < SockCap
      [] OTHER -> IF k = "readable" THEN c2s.rcv # <<>>
                  ELSE Len(s2c.snd) < SockCap

\* A poll that reports whatever is ready, registered or not.
ReadyEvents_any_token ==
    {e \in [token : 0..2, kind : Kinds] : SockReady(e.token, e.kind)}

\* One poll of the OS primitive (level-triggered): every event a registered
\* descriptor is ready for, within its interest set.
ReadyEvents ==
    {e \in [token : {r.token : r \in reg}, kind : Kinds] :
        \E r \in reg : r.token = e.token /\ e.kind \in r.interest
                        /\ SockReady(e.token, e.kind)}

\* A shutdown() that flips the request instead of setting it.
shutdown_toggles(flag) == ~flag

\* Reactor::shutdown: the loop is asked to stop.
shutdown(flag) == TRUE

\* ---- the kernel's sockets

\* read(2) on a socket whose arrived bytes are q.rcv, into a slice of n bytes.
SockReadSys(q, n) ==
    IF q.rcv = <<>>
    THEN {SysErr("EAGAIN")}
    ELSE {SysOk(SubSeq(q.rcv, 1, k)) : k \in 1..Min(n, Len(q.rcv))}

\* write(2) of the slice s on a socket whose send buffer is q.snd.
SockWriteSys(q, s) ==
    IF cstate # "established" THEN {SysErr("ENOTCONN")}
    ELSE IF Len(q.snd) >= SockCap THEN {SysErr("EAGAIN")}
    ELSE {SysOk(SubSeq(s, 1, k)) : k \in 1..Min(Len(s), SockCap - Len(q.snd))}

\* The network moves the oldest byte sent into the peer's receive buffer.
Moved1(q) == [snd |-> Tail(q.snd), rcv |-> Append(q.rcv, Head(q.snd))]

DeliverC2S ==
    /\ c2s.snd # <<>> /\ Len(c2s.rcv) < SockCap
    /\ c2s' = Moved1(c2s)
    /\ UNCHANGED <<pumpVars, pipeVars, reactorVars, cstate, backlog, s2c, appVars, histVars>>
    /\ UNCHANGED moreVars

DeliverS2C ==
    /\ s2c.snd # <<>> /\ Len(s2c.rcv) < SockCap
    /\ s2c' = Moved1(s2c)
    /\ UNCHANGED <<pumpVars, pipeVars, reactorVars, cstate, backlog, c2s, appVars, histVars>>
    /\ UNCHANGED moreVars

\* The non-blocking connect completes: the connection waits in the
\* listener's queue.
Handshake ==
    /\ cstate = "inprogress"
    /\ cstate' = "established"
    /\ backlog' = backlog + 1
    /\ UNCHANGED <<pumpVars, pipeVars, reactorVars, c2s, s2c, appVars, histVars>>
    /\ UNCHANGED moreVars

\* os::connect: Ok(true) when connect(2) succeeded, Ok(false) on EINPROGRESS,
\* the error otherwise.
\* os::connect reporting a connect in progress as the error it is to the OS.
os_connect_inprogress_is_error(r) ==
    CASE r.errno = "OK" -> "Ok(true)"
      [] OTHER          -> IF from_sys_error(r.errno) = "WouldBlock"
                           THEN "Err(WouldBlock)" ELSE "Err(Other)"

os_connect(r) ==
    CASE r.errno = "OK"          -> "Ok(true)"
      [] r.errno = "EINPROGRESS" -> "Ok(false)"
      [] OTHER                   -> IF from_sys_error(r.errno) = "WouldBlock"
                                    THEN "Err(WouldBlock)" ELSE "Err(Other)"

\* ---- test_echo_server

InitEcho ==
    /\ NoCall /\ NoPipe
    /\ tpc = "listen"
    /\ rstate = "Idle"
    /\ rpc = "poll"
    /\ reg = {}
    /\ pending = {}
    /\ shutdown_req = FALSE
    /\ cstate = "none"
    /\ backlog = 0
    /\ c2s = NoBytes
    /\ s2c = NoBytes
    /\ hpc = "none"
    /\ htok = 0
    /\ cont = "none"
    /\ client = NoClient
    /\ conns = <<>>
    /\ panic = "none"
    /\ sent = <<>>
    /\ rcvd = <<>>
    /\ NoMore

\* The listener registered like any other descriptor, for both kinds.
TestListen_both ==
    /\ tpc = "listen"
    /\ tpc' = "connect"
    /\ reg' = register(reg, 0, Kinds)
    /\ UNCHANGED <<pumpVars, pipeVars, rstate, rpc, pending, shutdown_req, netVars,
                   hpc, htok, cont, client, conns, panic, histVars>>
    /\ UNCHANGED moreVars

\* reactor.listen(&srv, 256u, 0u): the listener is watched for readable events.
TestListen ==
    /\ tpc = "listen"
    /\ tpc' = "connect"
    /\ reg' = register(reg, 0, {"readable"})
    /\ UNCHANGED <<pumpVars, pipeVars, rstate, rpc, pending, shutdown_req, netVars,
                   hpc, htok, cont, client, conns, panic, histVars>>
    /\ UNCHANGED moreVars

\* reactor.connect(&sock, &addr, 1u): a non-blocking connect, done at once or
\* in progress; the socket is registered either way.
TestConnect ==
    /\ tpc = "connect"
    /\ tpc' = "run"
    /\ \E r \in {SysOk(<<>>), SysErr("EINPROGRESS")} :
          IF os_connect(r) = "Ok(true)"
          THEN cstate' = "established" /\ backlog' = backlog + 1
          ELSE cstate' = "inprogress" /\ backlog' = backlog
    /\ reg' = register(reg, 1, Kinds)
    /\ UNCHANGED <<pumpVars, pipeVars, rstate, rpc, pending, shutdown_req, c2s, s2c,
                   hpc, htok, cont, client, conns, panic, histVars>>
    /\ UNCHANGED moreVars

\* EchoClient::new: the first message is the current one.
EchoClient_new(msgs) ==
    [msgs |-> Tail(msgs), tx |-> FromBytes(Head(msgs)), rx |-> FromBytes(Head(msgs)),
     buf |-> NewBuf(BufCap), writable |-> FALSE]

\* EchoConn::new
EchoConn_new == [readable |-> FALSE, writable |-> FALSE, ring |-> <<>>]

\* reactor.run(EchoHandler::new(srv, sock, vec!["foo", "bar"]))
TestRun ==
    /\ tpc = "run"
    /\ tpc' = "running"
    /\ client' = EchoClient_new(MsgList)
    /\ rstate' = "Running"
    /\ rpc' = "poll"
    /\ UNCHANGED <<pumpVars, pipeVars, reg, pending, shutdown_req, netVars,
                   hpc, htok, cont, conns, panic, histVars>>
    /\ UNCHANGED moreVars

\* Reactor::run, the poll: the events of this cycle.
Poll ==
    /\ rstate = "Running" /\ rpc = "poll" /\ panic = "none"
    /\ pending' = ReadyEvents
    /\ rpc' = "dispatch"
    /\ UNCHANGED <<pumpVars, pipeVars, rstate, reg, shutdown_req, netVars, appVars, histVars>>
    /\ UNCHANGED moreVars

\* A run() that stops as soon as shutdown() was called, events left or not.
EndPass_preemptive ==
    /\ rstate = "Running" /\ rpc = "dispatch" /\ hpc = "none" /\ panic = "none"
    /\ IF shutdown_req
       THEN rstate' = "Stopped" /\ tpc' = "returned" /\ rpc' = rpc
       ELSE pending = {} /\ rstate' = rstate /\ tpc' = tpc /\ rpc' = "poll"
    /\ UNCHANGED <<pumpVars, pipeVars, reg, pending, shutdown_req, netVars,
                   hpc, htok, cont, client, conns, panic, histVars>>
    /\ UNCHANGED moreVars

\* Reactor::run, the end of a dispatch pass: the loop polls again, or stops
\* when shutdown() was called, and run() returns Ok to the test.
EndPass ==
    /\ rstate = "Running" /\ rpc = "dispatch" /\ hpc = "none" /\ panic = "none"
    /\ pending = {}
    /\ IF shutdown_req
       THEN rstate' = "Stopped" /\ tpc' = "returned" /\ rpc' = rpc
       ELSE rstate' = rstate /\ tpc' = tpc /\ rpc' = "poll"
    /\ UNCHANGED <<pumpVars, pipeVars, reg, pending, shutdown_req, netVars,
                   hpc, htok, cont, client, conns, panic, histVars>>
    /\ UNCHANGED moreVars

\* ---- EchoConn

\* IORingbuf::push_buf: a buffer over the ring's free space.
push_buf(ring) == NewBuf(RingCap - Len(ring))

\* IORingbuf::pop_buf: a buffer over the ring's bytes.
pop_buf(ring) == FromBytes(ring)

is_full(ring) == Len(ring) = RingCap

\* can_continue without its second test.
can_continue_readable_only(c) == c.readable /\ ~is_full(c.ring)

\* EchoConn::can_continue
can_continue(c) ==
    \/ c.readable /\ ~is_full(c.ring)
    \/ c.writable /\ c.ring # <<>>

\* The slab index of the connection registered under token t.
Idx(t) == t - 2 + 1

\* ---- EchoClient

\* RWIobuf::flip_lo: the window becomes the bytes before the cursor.
flip_lo(b) == [b EXCEPT !.lo = 0, !.hi = b.lo]

\* RWIobuf::reset: the window is the whole buffer again.
reset(b) == [b EXCEPT !.lo = 0, !.hi = BufCap]

RECURSIVE Compare(_, _)
\* The loop of EchoClient::readable over the bytes read: each is compared
\* with the next expected byte of rx; [rx: what is left to expect, panic].
Compare(bytes, rx) ==
    IF bytes = <<>> THEN [rx |-> rx, panic |-> "none"]
    ELSE IF is_empty(rx) THEN [rx |-> rx, panic |-> "rx.consume_be().unwrap()"]
    ELSE IF Head(bytes) # as_slice(rx)[1] THEN [rx |-> rx, panic |-> "assert_eq"]
    ELSE Compare(Tail(bytes), unsafe_advance(rx, 1))

\* The next message as soon as this one was sent.
msg_done_when_sent(rx, tx) == is_empty(tx)

\* EchoClient::readable's test for "this message has come back".
msg_done(rx, tx) == is_empty(rx)

\* The end of the loop body of EchoClient::readable for the client record c:
\* return when the read would have blocked, read again otherwise.
ReadableTail(res, c) ==
    /\ cont' = "none"
    /\ IF res = "Ok(WouldBlock)"
       THEN Leave /\ hpc' = "none"
       ELSE Enter("read", c.buf) /\ hpc' = "c_read"

\* EchoClient::flush_msg called with the client record c; k is where it
\* returns to.
FlushMsg(c, k) ==
    IF ~c.writable
    THEN IF k = "writable"
         THEN Leave /\ hpc' = "none" /\ cont' = "none"
         ELSE ReadableTail(k, c)
    ELSE Enter("write", c.tx) /\ hpc' = "c_flush" /\ cont' = k

\* Handler for EchoHandler: readable(token) and writable(token), up to the
\* first pump call of the callback.  Token 0 is the listener
\* (EchoServer::accept), token 1 the client, any other a connection.
EchoHandler(e) ==
    CASE e.kind = "readable" /\ e.token = 0 ->
            \* EchoServer::accept
            IF backlog = 0
            THEN /\ panic' = "accept().unwrap().unwrap()"
                 /\ UNCHANGED <<pumpVars, reg, backlog, hpc, cont, client, conns>>
            ELSE IF Registered(2 + Len(conns))
            THEN /\ panic' = "could not register socket with reactor"
                 /\ UNCHANGED <<pumpVars, reg, backlog, hpc, cont, client, conns>>
            ELSE /\ backlog' = backlog - 1
                 /\ conns' = Append(conns, EchoConn_new)
                 /\ reg' = register(reg, 2 + Len(conns), Kinds)
                 /\ UNCHANGED <<pumpVars, hpc, cont, client, panic>>
      [] e.kind = "readable" /\ e.token = 1 ->
            \* EchoClient::readable
            /\ Enter("read", client.buf)
            /\ hpc' = "c_read"
            /\ UNCHANGED <<reg, backlog, cont, client, conns, panic>>
      [] e.kind = "writable" /\ e.token = 0 ->
            /\ panic' = "received writable for token 0"
            /\ UNCHANGED <<pumpVars, reg, backlog, hpc, cont, client, conns>>
      [] e.kind = "writable" /\ e.token = 1 ->
            \* EchoClient::writable
            /\ client' = [client EXCEPT !.writable = TRUE]
            /\ FlushMsg(client', "writable")
            /\ UNCHANGED <<reg, backlog, conns, panic>>
      [] OTHER ->
            \* EchoServer::conn_readable / conn_writable
            /\ conns' = IF e.kind = "readable"
                        THEN [conns EXCEPT ![Idx(e.token)].readable = TRUE]
                        ELSE [conns EXCEPT ![Idx(e.token)].writable = TRUE]
            /\ hpc' = "s_echo"
            /\ UNCHANGED <<pumpVars, reg, backlog, cont, client, panic>>

\* Reactor::run dispatches one event of the cycle, in any order, to the
\* handler.
Dispatch ==
    /\ rstate = "Running" /\ rpc = "dispatch" /\ hpc = "none" /\ panic = "none"
    /\ \E e \in pending :
        /\ pending' = pending \ {e}
        /\ htok' = e.token
        /\ EchoHandler(e)
    /\ UNCHANGED <<pipeVars, tpc, rstate, rpc, shutdown_req, cstate, c2s, s2c, histVars>>
    /\ UNCHANGED moreVars

\* EchoConn::echo: the loop test, then fill_buf, which reads when the
\* connection is readable, else flush_buf, which writes when it is writable.
ConnEcho ==
    /\ hpc = "s_echo" /\ panic = "none"
    /\ LET c == conns[Idx(htok)]
       IN  IF ~can_continue(c)
           THEN /\ hpc' = "none"
                /\ UNCHANGED pumpVars
           ELSE IF c.readable
           THEN Enter("read", push_buf(c.ring)) /\ hpc' = "s_fill"
           ELSE IF c.writable
           THEN Enter("write", pop_buf(c.ring)) /\ hpc' = "s_flush"
           ELSE hpc' = hpc /\ UNCHANGED pumpVars
    /\ UNCHANGED <<pipeVars, reactorVars, netVars, tpc, htok, cont, client, conns, panic,
                   histVars>>
    /\ UNCHANGED moreVars

\* EchoConn::fill_buf after its read returned, then flush_buf.
ConnFillRet ==
    /\ hpc = "s_fill" /\ pc = "done" /\ panic = "none"
    /\ IF IsErr(ret)
       THEN /\ panic' = "conn(tok).readable().unwrap()"
            /\ UNCHANGED <<pumpVars, hpc, conns>>
       ELSE LET i == Idx(htok)
                c == [conns[i] EXCEPT
                        !.ring = @ \o SubSeq(buf.mem, 1, buf.lo),
                        !.readable = IF ret = "Ok(WouldBlock)" THEN FALSE ELSE @]
            IN  /\ conns' = [conns EXCEPT ![i] = c]
                /\ panic' = panic
                /\ IF c.writable
                   THEN Enter("write", pop_buf(c.ring)) /\ hpc' = "s_flush"
                   ELSE Leave /\ hpc' = "s_echo"
    /\ UNCHANGED <<pipeVars, reactorVars, netVars, tpc, htok, cont, client, histVars>>
    /\ UNCHANGED moreVars

\* EchoConn::flush_buf after its write returned: back to the loop test.
ConnFlushRet ==
    /\ hpc = "s_flush" /\ pc = "done" /\ panic = "none"
    /\ IF IsErr(ret)
       THEN /\ panic' = "conn(tok).writable().unwrap()"
            /\ UNCHANGED <<pumpVars, hpc, conns>>
       ELSE LET i == Idx(htok)
            IN  /\ conns' = [conns EXCEPT
                        ![i].ring = as_slice(buf),
                        ![i].writable = IF ret = "Ok(WouldBlock)" THEN FALSE ELSE @]
                /\ panic' = panic
                /\ Leave
                /\ hpc' = "s_echo"
    /\ UNCHANGED <<pipeVars, reactorVars, netVars, tpc, htok, cont, client, histVars>>
    /\ UNCHANGED moreVars

\* EchoClient::readable after its read returned: the bytes read are compared
\* with the expected ones; a message that has come back whole is followed by
\* the next one (next_msg), or by shutdown() after the last.
ClientReadRet ==
    /\ hpc = "c_read" /\ pc = "done" /\ panic = "none"
    /\ IF IsErr(ret)
       THEN /\ panic' = "not implemented; client err"
            /\ UNCHANGED <<pumpVars, hpc, cont, client, shutdown_req, rcvd, ncalls>>
       ELSE LET got == as_slice(flip_lo(buf))
                chk == Compare(got, client.rx)
                c   == [client EXCEPT !.rx = chk.rx, !.buf = reset(buf)]
            IN  IF chk.panic # "none"
                THEN /\ panic' = chk.panic
                     /\ UNCHANGED <<pumpVars, hpc, cont, client, shutdown_req, rcvd, ncalls>>
                ELSE /\ panic' = panic
                     /\ rcvd' = rcvd \o got
                     /\ IF ~msg_done(c.rx, c.tx)
                        THEN /\ client' = c
                             /\ shutdown_req' = shutdown_req
                             /\ ncalls' = ncalls
                             /\ ReadableTail(ret, c)
                        ELSE IF c.msgs = <<>>
                        THEN /\ client' = c
                             /\ shutdown_req' = shutdown(shutdown_req)
                             /\ ncalls' = ncalls + 1
                             /\ ReadableTail(ret, c)
                        ELSE /\ client' = [c EXCEPT !.msgs = Tail(@),
                                                    !.tx = FromBytes(Head(c.msgs)),
                                                    !.rx = FromBytes(Head(c.msgs))]
                             /\ shutdown_req' = shutdown_req
                             /\ ncalls' = ncalls
                             /\ FlushMsg(client', ret)
    /\ UNCHANGED <<pipeVars, rstate, rpc, reg, pending, netVars, tpc, htok, conns, sent>>
    /\ UNCHANGED <<eofs, cin, cout, osVars>>

\* EchoClient::flush_msg after its write returned, back in writable() or in
\* next_msg() called from readable().
ClientFlushRet ==
    /\ hpc = "c_flush" /\ pc = "done" /\ panic = "none"
    /\ IF IsErr(ret)
       THEN /\ panic' = "flush_msg().unwrap()"
            /\ UNCHANGED <<pumpVars, hpc, cont, client>>
       ELSE LET c == [client EXCEPT
                        !.tx = buf,
                        !.writable = IF ret = "Ok(WouldBlock)" THEN FALSE ELSE @]
            IN  /\ client' = c
                /\ panic' = panic
                /\ IF cont = "writable"
                   THEN Leave /\ hpc' = "none" /\ cont' = "none"
                   ELSE ReadableTail(cont, c)
    /\ UNCHANGED <<pipeVars, reactorVars, netVars, tpc, htok, conns, histVars>>
    /\ UNCHANGED moreVars

\* ---- the pump under a handler

InPump == hpc \in {"c_read", "c_flush", "s_fill", "s_flush"} /\ panic = "none"

EchoTest == InPump /\ LoopTest /\ UNCHANGED <<pipeVars, echoVars>>
    /\ UNCHANGED moreVars

\* The read pump on a socket: the client reads what the server sent, a
\* connection what the client sent.
EchoRead ==
    /\ InPump
    /\ LET q == IF hpc = "c_read" THEN s2c ELSE c2s
       IN  \E r \in SockReadSys(q, len(buf)) :
             /\ ReadStep(r)
             /\ LET q2 == [q EXCEPT !.rcv = SubSeq(@, r.n + 1, Len(@))]
                IN  IF hpc = "c_read"
                    THEN s2c' = q2 /\ c2s' = c2s /\ cin' = cin
                    ELSE c2s' = q2 /\ s2c' = s2c /\ cin' = cin \o r.bytes
    /\ UNCHANGED <<pipeVars, reactorVars, cstate, backlog, appVars, histVars>>
    /\ UNCHANGED <<ncalls, eofs, cout, osVars>>

\* The write pump on a socket.
EchoWrite ==
    /\ InPump
    /\ LET q == IF hpc = "c_flush" THEN c2s ELSE s2c
       IN  \E r \in SockWriteSys(q, as_slice(buf)) :
             /\ WriteStep(r)
             /\ LET q2 == [q EXCEPT !.snd = @ \o r.bytes]
                IN  IF hpc = "c_flush"
                    THEN c2s' = q2 /\ s2c' = s2c /\ sent' = sent \o r.bytes /\ cout' = cout
                    ELSE s2c' = q2 /\ c2s' = c2s /\ sent' = sent /\ cout' = cout \o r.bytes
    /\ UNCHANGED <<pipeVars, reactorVars, cstate, backlog, appVars, rcvd>>
    /\ UNCHANGED <<ncalls, eofs, cin, osVars>>

\* What the one thread of the test does.
Thread ==
    TestListen \/ TestConnect \/ TestRun \/ Poll \/ Dispatch \/ EndPass
        \/ ConnEcho \/ ConnFillRet \/ ConnFlushRet \/ ClientReadRet \/ ClientFlushRet
        \/ EchoTest \/ EchoRead \/ EchoWrite

NextEcho == Thread \/ Handshake \/ DeliverC2S \/ DeliverS2C

SpecEcho == InitEcho /\ [][NextEcho]_vars

\* The thread keeps running, the connect completes and the network delivers.
FairSpecEcho ==
    /\ SpecEcho
    /\ WF_vars(Thread)
    /\ WF_vars(Handshake)
    /\ WF_vars(DeliverC2S)
    /\ WF_vars(DeliverS2C)

\* ------------------------------------------- properties of the echo test

RECURSIVE Concat(_)
Concat(ss) == IF ss = <<>> THEN <<>> ELSE Head(ss) \o Concat(Tail(ss))

\* Every byte of every message, in the order sent.
AllBytes == Concat(MsgList)

IsPrefix(a, b) == Len(a) <= Len(b) /\ SubSeq(b, 1, Len(a)) = a

\* The bytes of the first k messages.
UpTo(k) == Concat(SubSeq(MsgList, 1, k))

\* C8: with the listener under token 0, the client under token 1 with
\* messages foo and bar and the accepted connection under token 2, and with
\* the thread, the connect and the network making progress, the run ends:
\* the client gets every byte back, shutdown() is called, run() returns to
\* the test, and nothing has failed on the way.
C8_EchoCompletes ==
    <>(tpc = "returned" /\ rstate = "Stopped" /\ panic = "none"
         /\ shutdown_req /\ rcvd = AllBytes)

C8_Witness ==
    /\ tpc = "returned" /\ rstate = "Stopped" /\ panic = "none"
    /\ sent = AllBytes /\ rcvd = AllBytes /\ Len(conns) = 1

\* The bytes the client has read for the current message: those compared
\* already and those its running read has stored.
CurReceived ==
    SubSeq(client.rx.mem, 1, client.rx.lo)
        \o (IF hpc = "c_read" THEN SubSeq(buf.mem, 1, buf.lo) ELSE <<>>)

\* C9: at every moment the bytes the client has received for the current
\* message are a prefix of that message, and all it has received a prefix of
\* all it sends; neither the assert_eq nor the unwrap of the expected byte in
\* EchoClient::readable fails.
C9_EchoByteExact ==
    /\ IsPrefix(CurReceived, client.rx.mem)
    /\ IsPrefix(rcvd, AllBytes)
    /\ panic \notin {"assert_eq", "rx.consume_be().unwrap()"}

\* The rest of bar arrives in a second read, after its first byte was compared.
C9_Witness ==
    /\ hpc = "c_read" /\ pc = "done" /\ client.rx.lo = 1
    /\ client.msgs = <<>> /\ SubSeq(buf.mem, 1, buf.lo) = <<"a", "r">>

\* C10: no byte of a later message is written to the socket before every
\* byte of the messages before it has come back to the client, and
\* shutdown() is called only when every byte of the last one has.
C10_OneMessageAtATime ==
    /\ \A k \in 1..Len(MsgList) : Len(sent) > Len(UpTo(k)) => Len(rcvd) >= Len(UpTo(k))
    /\ IsPrefix(sent, AllBytes)
    /\ shutdown_req => rcvd = AllBytes

\* The first byte of bar is on the socket, foo has come back.
C10_Witness ==
    /\ sent = <<"f", "o", "o", "b">> /\ rcvd = <<"f", "o", "o">> /\ hpc = "c_flush"

\* --------------------------------------------- one EchoConn, any OS result

\* One accepted connection under token 2, its ring buffer empty or one byte
\* short of full; up to MaxIn bytes are on their way from the peer, which
\* never reads what is echoed.  readable(2) and writable(2) come in any order and
\* number; besides what the socket holds, a read may meet the end of the
\* stream or an error, and a write may move nothing or fail.
StartRings == {<<>>, [i \in 1..(RingCap - 1) |-> "a"]}

Inputs == {[i \in 1..n |-> IF i % 2 = 1 THEN "b" ELSE "a"] : n \in 0..MaxIn}

InitConn ==
    /\ NoCall /\ NoPipe /\ NoOs
    /\ ncalls = 0
    /\ eofs = 0
    /\ tpc = "running"
    /\ rstate = "Running"
    /\ rpc = "dispatch"
    /\ reg = register({}, 2, Kinds)
    /\ pending = {}
    /\ shutdown_req = FALSE
    /\ cstate = "established"
    /\ backlog = 0
    /\ \E in \in Inputs : c2s = [snd |-> in, rcv |-> <<>>]
    /\ s2c = NoBytes
    /\ hpc = "none"
    /\ htok = 2
    /\ cont = "none"
    /\ client = NoClient
    /\ \E ring \in StartRings : conns = <<[EchoConn_new EXCEPT !.ring = ring]>>
    /\ cin = <<>>
    /\ cout = <<>>
    /\ panic = "none"
    /\ sent = <<>>
    /\ rcvd = <<>>

\* The Reactor calls readable(2) or writable(2).
ConnCallback ==
    /\ hpc = "none" /\ panic = "none"
    /\ \E k \in Kinds : EchoHandler([token |-> 2, kind |-> k])
    /\ UNCHANGED <<pipeVars, tpc, rstate, rpc, pending, shutdown_req, cstate, c2s, s2c,
                   htok, histVars, moreVars>>

\* read(2) returns 0 (the peer has closed) or fails.
ConnReadFails ==
    /\ InPump /\ hpc = "s_fill"
    /\ \E r \in {SysOk(<<>>), SysErr("ECONNRESET")} : ReadStep(r)
    /\ UNCHANGED <<pipeVars, echoVars, moreVars>>

\* write(2) returns 0 (nothing was written) or fails.
ConnWriteFails ==
    /\ InPump /\ hpc = "s_flush"
    /\ \E r \in {SysOk(<<>>), SysErr("EPIPE")} : WriteStep(r)
    /\ UNCHANGED <<pipeVars, echoVars, moreVars>>

\* What the thread does inside a callback of the connection.
ConnThread ==
    ConnEcho \/ ConnFillRet \/ ConnFlushRet \/ EchoTest \/ EchoRead \/ EchoWrite
        \/ ConnReadFails \/ ConnWriteFails

NextConn == ConnCallback \/ ConnThread \/ DeliverC2S \/ DeliverS2C

SpecConn == InitConn /\ [][NextConn]_vars

\* A callback that was entered keeps running.
FairSpecConn == SpecConn /\ WF_vars(ConnThread)

\* The bytes the connection holds: those of its read in progress after those
\* in the ring (of which a write in progress has taken some).
Held ==
    (IF hpc = "s_flush" THEN as_slice(buf) ELSE conns[1].ring)
        \o (IF hpc = "s_fill" THEN SubSeq(buf.mem, 1, buf.lo) ELSE <<>>)

\* What the connection wrote is a prefix of what it read (the ring's first
\* content, then the bytes taken from the socket): written bytes and held
\* bytes together are the bytes read.
InOrder == \E s \in StartRings : cout \o Held = s \o cin

\* C20, its two safety parts: the ring never holds more than its capacity,
\* and the bytes written are a prefix of the bytes read.
C20_RingAndOrder ==
    /\ Len(conns[1].ring) <= RingCap
    /\ Len(Held) <= RingCap
    /\ InOrder

\* C20: whatever the state of the EchoConn and whatever the OS answers, the
\* loop of EchoConn::echo ends (the callback returns or fails), the ring
\* never holds more than its capacity, and the bytes written to the socket
\* are a prefix of the bytes read from it.
C20_EchoLoop ==
    /\ [](Len(conns[1].ring) <= RingCap)
    /\ [](InOrder)
    /\ (hpc \in {"s_echo", "s_fill", "s_flush"}) ~> (hpc = "none" \/ panic # "none")

\* ------------------------------------------- the OS layer's descriptors

\* The kernel: a resource it creates gets the lowest free fd number; close(2)
\* frees the number and releases the resource; a number that is not open is
\* EBADF to every call.
FreeFds(tab) == {n \in DOMAIN tab : tab[n] = 0}

LowestFree(tab) == CHOOSE n \in FreeFds(tab) : \A m \in FreeFds(tab) : n <= m

KOpen(tab, cl) ==
    LET n == LowestFree(tab)
    IN  [fd |-> n, tab |-> [tab EXCEPT ![n] = Len(cl) + 1], closes |-> Append(cl, 0)]

KClose(tab, cl, fd) ==
    IF tab[fd] = 0
    THEN [tab |-> tab, closes |-> cl, bad |-> TRUE]
    ELSE [tab |-> [tab EXCEPT ![fd] = 0], closes |-> [cl EXCEPT ![tab[fd]] = @ + 1],
          bad |-> FALSE]

Remove(s, i) == SubSeq(s, 1, i - 1) \o SubSeq(s, i + 1, Len(s))

\* Both IoDesc of a pipe made over its read end.
pipe_descs_same_end(rd, wr) == <<rd, rd>>

\* os::pipe's result: (IoDesc { fd: rd }, IoDesc { fd: wr }).
pipe_descs(rd, wr) == <<rd, wr>>

\* No pump, pipe or Reactor is involved.
OsOnly == UNCHANGED <<pumpVars, pipeVars, echoVars, ncalls, eofs, cin, cout>>

InitOs == InitPump

\* os::pipe: pipe2 makes both ends, or fails and nothing was made.
OsPipe ==
    /\ \E r \in {"OK", "EMFILE"} :
          IF r = "OK"
          THEN /\ Len(closes) + 2 <= MaxRes
               /\ LET a == KOpen(fdtab, closes)
                      b == KOpen(a.tab, a.closes)
                  IN  /\ fdtab' = b.tab
                      /\ closes' = b.closes
                      /\ descs' = descs \o pipe_descs(a.fd, b.fd)
               /\ oscall' = [call |-> "pipe", errno |-> r, ret |-> "Ok(IoDesc, IoDesc)"]
          ELSE /\ oscall' = [call |-> "pipe", errno |-> r, ret |-> "Err(Other)"]
               /\ UNCHANGED <<fdtab, closes, descs>>
    /\ UNCHANGED misuse
    /\ OsOnly

\* os::socket: one stream socket, or the error.
OsSocket ==
    /\ \E r \in {"OK", "EMFILE"} :
          IF r = "OK"
          THEN /\ Len(closes) + 1 <= MaxRes
               /\ LET a == KOpen(fdtab, closes)
                  IN  /\ fdtab' = a.tab
                      /\ closes' = a.closes
                      /\ descs' = Append(descs, a.fd)
               /\ oscall' = [call |-> "socket", errno |-> r, ret |-> "Ok(IoDesc)"]
          ELSE /\ oscall' = [call |-> "socket", errno |-> r, ret |-> "Err(Other)"]
               /\ UNCHANGED <<fdtab, closes, descs>>
    /\ UNCHANGED misuse
    /\ OsOnly

\* os::accept on the IoDesc descs[i]: accept4 makes the connection's
\* descriptor, or fails (EAGAIN: none is waiting).
OsAccept ==
    /\ \E i \in DOMAIN descs, r \in {"OK", "EAGAIN"} :
          /\ misuse' = (misuse \/ fdtab[descs[i]] = 0)
          /\ IF r = "OK"
             THEN /\ Len(closes) + 1 <= MaxRes
                  /\ LET a == KOpen(fdtab, closes)
                     IN  /\ fdtab' = a.tab
                         /\ closes' = a.closes
                         /\ descs' = Append(descs, a.fd)
                  /\ oscall' = [call |-> "accept", errno |-> r, ret |-> "Ok(IoDesc)"]
             ELSE /\ oscall' = [call |-> "accept", errno |-> r,
                                ret |-> "Err(WouldBlock)"]
                  /\ UNCHANGED <<fdtab, closes, descs>>
    /\ OsOnly

\* os::connect on the IoDesc descs[i], connect(2) answering errno.
OsConnect ==
    /\ \E i \in DOMAIN descs, r \in {"OK", "EINPROGRESS", "ECONNREFUSED", "EAGAIN"} :
          /\ misuse' = (misuse \/ fdtab[descs[i]] = 0)
          /\ oscall' = [call |-> "connect", errno |-> r, ret |-> os_connect(SysErr(r))]
    /\ UNCHANGED <<fdtab, closes, descs>>
    /\ OsOnly

\* Any other call given &IoDesc: read, write, bind, listen, a socket option,
\* a registration.
OsUse ==
    /\ \E i \in DOMAIN descs, c \in {"read", "write", "register"} :
          /\ misuse' = (misuse \/ fdtab[descs[i]] = 0)
          /\ oscall' = [call |-> c, errno |-> "OK", ret |-> "Ok"]
    /\ UNCHANGED <<fdtab, closes, descs>>
    /\ OsOnly

\* Drop for IoDesc: the value descs[i] ends (its scope ends, by return or by
\* unwinding) and close(2) is called on its fd.
DropDesc ==
    /\ \E i \in DOMAIN descs :
          LET k == KClose(fdtab, closes, descs[i])
          IN  /\ fdtab' = k.tab
              /\ closes' = k.closes
              /\ misuse' = (misuse \/ k.bad)
              /\ descs' = Remove(descs, i)
              /\ oscall' = [call |-> "close", errno |-> IF k.bad THEN "EBADF" ELSE "OK",
                            ret |-> "()"]
    /\ OsOnly

NextOs == OsPipe \/ OsSocket \/ OsAccept \/ OsConnect \/ OsUse \/ DropDesc

SpecOs == InitOs /\ [][NextOs]_vars

\* The IoDesc values that hold resource r's fd number.
Owners(r) == {i \in DOMAIN descs : fdtab[descs[i]] = r}

\* C14: every resource pipe, socket or accept created is held by exactly one
\* IoDesc while it is open and by none once it is closed, it is closed once
\* (no close and no other call is ever given an fd number that is not open),
\* and when every IoDesc has been destroyed every resource is closed,
\* whether the creating call returned a value or failed.
C14_ReleasedExactlyOnce ==
    /\ ~misuse
    /\ \A r \in DOMAIN closes :
          /\ closes[r] <= 1
          /\ Cardinality(Owners(r)) = (IF closes[r] = 0 THEN 1 ELSE 0)
    /\ \A i \in DOMAIN descs : fdtab[descs[i]] # 0
    /\ descs = <<>> => \A r \in DOMAIN closes : closes[r] = 1

\* A pipe and a socket were made, and all three were dropped.
C14_Witness ==
    /\ Len(closes) = 3 /\ descs = <<>> /\ oscall.call = "close"
    /\ \A r \in DOMAIN closes : closes[r] = 1

\* C17: os::connect returns Ok(true) exactly when connect(2) succeeded,
\* Ok(false) exactly when it answered EINPROGRESS, and an error for every
\* other errno.
C17_ConnectOutcome ==
    oscall.call = "connect" =>
        /\ oscall.ret = "Ok(true)" <=> oscall.errno = "OK"
        /\ oscall.ret = "Ok(false)" <=> oscall.errno = "EINPROGRESS"
        /\ oscall.errno \notin {"OK", "EINPROGRESS"}
              <=> oscall.ret \in {"Err(Other)", "Err(WouldBlock)"}

\* A refused connect came back as the error.
C17_Witness ==
    /\ oscall = [call |-> "connect", errno |-> "ECONNREFUSED", ret |-> "Err(Other)"]
    /\ descs # <<>>

\* ------------------------------------ the Reactor under an arbitrary handler

\* run() with a listener under token 0 and a connected socket under token 1,
\* as the test registers them, and a handler of which only its calls of
\* shutdown() are known.  What the OS reports ready changes at any time.
InitReactor ==
    /\ NoCall /\ NoPipe /\ NoMore
    /\ tpc = "running"
    /\ rstate = "Running"
    /\ rpc = "poll"
    /\ reg = register(register({}, 0, {"readable"}), 1, Kinds)
    /\ pending = {}
    /\ shutdown_req = FALSE
    /\ cstate = "established"
    /\ backlog = 0
    /\ c2s = NoBytes
    /\ s2c = NoBytes
    /\ hpc = "none"
    /\ htok = 0
    /\ cont = "none"
    /\ client = NoClient
    /\ conns = <<>>
    /\ panic = "none"
    /\ sent = <<>>
    /\ rcvd = <<>>

\* A connection arrives or is taken, bytes arrive or are taken, the send
\* buffer fills or drains.
OsReadiness ==
    /\ \E b \in 0..1, r \in {<<>>, Fill(1)}, w \in {<<>>, Fill(SockCap)} :
          /\ backlog' = b
          /\ s2c' = [s2c EXCEPT !.rcv = r]
          /\ c2s' = [c2s EXCEPT !.snd = w]
    /\ UNCHANGED <<pumpVars, pipeVars, reactorVars, cstate, appVars, histVars, moreVars>>

\* run() hands one event of the cycle to the handler.
AnyDispatch ==
    /\ rstate = "Running" /\ rpc = "dispatch" /\ hpc = "none" /\ panic = "none"
    /\ \E e \in pending :
          /\ pending' = pending \ {e}
          /\ htok' = e.token
    /\ hpc' = "callback"
    /\ UNCHANGED <<pumpVars, pipeVars, rstate, rpc, reg, shutdown_req, netVars,
                   tpc, cont, client, conns, panic, histVars, moreVars>>

\* The callback calls reactor.shutdown().
CbShutdown ==
    /\ hpc = "callback" /\ ncalls < MaxShutdowns
    /\ shutdown_req' = shutdown(shutdown_req)
    /\ ncalls' = ncalls + 1
    /\ UNCHANGED <<pumpVars, pipeVars, rstate, rpc, reg, pending, netVars, appVars, histVars,
                   eofs, cin, cout, osVars>>

\* The callback returns.
CbReturn ==
    /\ hpc = "callback"
    /\ hpc' = "none"
    /\ UNCHANGED <<pumpVars, pipeVars, reactorVars, netVars, tpc, htok, cont, client, conns,
                   panic, histVars, moreVars>>

NextReactor == OsReadiness \/ Poll \/ AnyDispatch \/ CbShutdown \/ CbReturn \/ EndPass

SpecReactor == InitReactor /\ [][NextReactor]_vars

\* C13: a second and any later call of shutdown() in a dispatch pass changes
\* nothing in the Reactor: the request is set exactly when shutdown() was
\* called at least once, a call made when it was already set leaves the
\* Reactor's whole state as it was, and so run() goes on (the rest of the
\* pass, then Stopped) as after one call.
C13_ShutdownIdempotent ==
    /\ [](shutdown_req <=> ncalls >= 1)
    /\ [](rstate = "Stopped" => ncalls >= 1)
    /\ [][(ncalls' > ncalls /\ ncalls >= 1) => reactorVars' = reactorVars]_vars
    /\ [][shutdown_req => (shutdown_req' /\ rpc' = rpc)]_vars

\* shutdown() was called twice, and run() has returned.
C13_Witness == ncalls = 2 /\ rstate = "Stopped" /\ tpc = "returned"

\* ------------------------------------- properties of the Reactor's dispatch

\* C11: the handler is called for a token only after the token was
\* registered and only while run() is running: every event waiting for
\* dispatch and every running callback is for a registered token, nothing
\* waits or runs once the Reactor is not Running, and in the step that
\* registers a token (the accepted connection's 2 + index, registered from
\* inside a dispatch pass) no event for it waits and no callback for it runs.
C11_DispatchWindow ==
    /\ [](\A e \in pending : Registered(e.token))
    /\ [](hpc # "none" => (Registered(htok) /\ rstate = "Running"))
    /\ [](rstate # "Running" => (pending = {} /\ hpc = "none"))
    /\ [][\A t \in 0..2 :
            (~Registered(t) /\ Registered(t)') =>
                /\ \A e \in pending' : e.token # t
                /\ hpc' # "none" => htok' # t]_vars

\* The accepted connection's callback runs, its token registered.
C11_Witness == hpc = "s_echo" /\ htok = 2 /\ Registered(2) /\ Len(conns) = 1

\* C12: shutdown() called from a callback does not cut the dispatch pass
\* short: after it no poll follows, each event still waiting is handed to
\* the handler, run() stops only when none is left, and it does stop and
\* return to the test.
C12_ShutdownNotPreemptive ==
    /\ [][shutdown_req => (shutdown_req' /\ rpc' = rpc /\ pending' \subseteq pending)]_vars
    /\ [][(shutdown_req /\ pending' # pending) =>
            \E e \in pending : pending' = pending \ {e} /\ htok' = e.token]_vars
    /\ [][(rstate = "Running" /\ rstate' # "Running") =>
            (shutdown_req /\ pending = {} /\ hpc = "none"
                /\ rstate' = "Stopped" /\ tpc' = "returned")]_vars
    /\ shutdown_req ~> (rstate = "Stopped" /\ tpc = "returned")

\* shutdown() was called and an event of the same cycle is dispatched after it.
C12_Witness == shutdown_req /\ rstate = "Running" /\ hpc # "none" /\ ncalls = 1

\* C16: the listener is registered for readable events only, and the
\* handler is never called with writable(0).
C16_ListenerReadableOnly ==
    /\ \A r \in reg : r.token = 0 => r.interest = {"readable"}
    /\ \A e \in pending : e.token = 0 => e.kind = "readable"
    /\ panic # "received writable for token 0"

\* The listener's readable event was dispatched: the connection is accepted.
C16_Witness == Registered(0) /\ Len(conns) = 1 /\ backlog = 0 /\ panic = "none"

====
